---- MODULE Spec2Model ----
(***************************************************************************)
(* Model of the customer order dashboard (src/pages/CustomerDashboard.tsx) *)
(* of the jiffyng marketplace: the component's state, its three async      *)
(* operations (checkCustomerAndLoadOrders, loadOrders, handleSignOut), the *)
(* realtime channel, and the backend tables the operations query.  The     *)
(* product form of the vendor dashboard (src/pages/VendorDashboard.tsx)    *)
(* and the sign-up of the Auth page are modelled next to it, each with     *)
(* its own specification over its own variables.                           *)
(*                                                                         *)
(* Every await of the source is an interleaving point: the code before an  *)
(* await and the code after it are separate actions.  Code between two     *)
(* awaits runs to completion on the UI event loop and is one action.       *)
(***************************************************************************)
EXTENDS Integers, Sequences, FiniteSets, TLC

\* ---------------------------------------------------------------- bounds
MaxOrders == 2      \* order rows the backend may hold
MaxUpdates == 1     \* status updates the backend makes once the page is open
MaxText == 1        \* characters the vendor types into the price or stock field
MaxInFlight == 1    \* operations of the vendor page in flight at once

\* ------------------------------------------------------------ vocabulary
None == "none"

Users == {"cust", "cust2", "vend", "ghost"}

\* the users whose orders the table holds; "cust2" is a customer without any
Buyers == {"cust"}

\* Order.status, CustomerDashboard.tsx line 19
Statuses == {"pending", "accepted", "in_transit", "delivered", "cancelled"}

\* the user_roles table: one row per user, no row for "ghost"
user_roles == [u \in Users |-> CASE u \in {"cust", "cust2"} -> "customer"
                                 [] u = "vend" -> "vendor"
                                 [] OTHER      -> None]

\* the ids the products table gives to its rows
ProductIds == {"p1"}

AccessDenied == "Access denied. Customer account required."

LoadFailed == "Failed to load orders"

VARIABLES
    session,        \* backend: id of the signed-in user, or None
    orders,         \* backend: the rows of the orders table
    updates,        \* backend: status updates made since the page opened
    mounted,        \* "no" before the effect runs, "yes", "gone" after cleanup
    channel,        \* number of subscribed realtime channels of the component
    subscribed,     \* number of times the component subscribed a channel
    activeOrders,   \* useState<Order[]>
    orderHistory,   \* useState<Order[]>
    loading,        \* useState(true)
    check,          \* the checkCustomerAndLoadOrders call: [pc, uid]
    loads,          \* the loadOrders calls in flight, in the order they started
    signOut,        \* the handleSignOut call: "idle", "await", "done"
    location,       \* router location
    notice,         \* the toast.error message of the last step, or None
    fetched,        \* the fetch last passed to the setters, and in `was` the
                    \* ids of the orders orderHistory has held so far
    \* VendorDashboard.tsx
    productsTable,  \* backend: the products table, its rows and the ids made
    products,       \* useState<Product[]>([]), the ids newest first
    formData,       \* useState({name, description, price, stock, category})
    editingProduct, \* useState<Product | null>(null)
    imageFile,      \* useState<File | null>(null)
    isDialogOpen,   \* useState(false)
    uploading,      \* useState(false)
    submit,         \* the handleSubmit call: [pc, form, editing, image, url]
    deletes,        \* the ids whose handleDelete call is in flight
    productLoads,   \* number of loadProducts calls in flight
    sent,           \* the request the last step sent to the backend
    failure,        \* the operation the backend failed in the last step, or None
    \* the Auth page
    accounts,       \* backend: the emails of the registered users
    roleRows,       \* backend: the rows the page inserted into user_roles
    isLogin,        \* useState(true)
    email,          \* useState("")
    selectedRole,   \* useState<UserRole>("customer")
    authLoading,    \* useState(false), the Auth page's loading
    signUp          \* the handleSignUp call: [pc, email, role]

\* the state of the customer dashboard, but for session and notice
dashVars == <<orders, updates, mounted, channel, subscribed, activeOrders,
              orderHistory, loading, check, loads, signOut, location, fetched>>

\* the state of the vendor dashboard, but for session and notice
vendorVars == <<productsTable, products, formData, editingProduct, imageFile,
                isDialogOpen, uploading, submit, deletes, productLoads, sent,
                failure>>

\* the state of the Auth page, but for notice
authVars == <<accounts, roleRows, isLogin, email, selectedRole, authLoading,
              signUp>>

\* the pages the customer dashboard does not touch
otherPages == <<vendorVars, authVars>>

vars == <<session, notice, dashVars, vendorVars, authVars>>

\* ------------------------------------------------------- pure functions
Range(s) == {s[i] : i \in 1..Len(s)}

Remove(s, i) == SubSeq(s, 1, i - 1) \o SubSeq(s, i + 1, Len(s))

Ids(s) == {s[j].id : j \in 1..Len(s)}

IsActiveTwice(order) == order.status /= "cancelled"

IsActive(order) == order.status \in {"pending", "accepted", "in_transit"}

IsHistoryDelivered(order) == order.status = "delivered"

IsHistory(order) == order.status \in {"delivered", "cancelled"}

\* ordersData?.filter(...) || []
FilterActive(ordersData) == SelectSeq(ordersData, IsActive)

FilterHistory(ordersData) == SelectSeq(ordersData, IsHistory)

\* the rows oldest first
RECURSIVE SortAsc(_)
SortAsc(S) ==
    IF S = {} THEN <<>>
    ELSE LET oldest == CHOOSE r \in S : \A q \in S : r.created_at <= q.created_at
         IN  <<oldest>> \o SortAsc(S \ {oldest})

\* .order("created_at", { ascending: false })
RECURSIVE SortDesc(_)
SortDesc(S) ==
    IF S = {} THEN <<>>
    ELSE LET newest == CHOOSE r \in S : \A q \in S : q.created_at <= r.created_at
         IN  <<newest>> \o SortDesc(S \ {newest})

\* .from("orders").select("*").eq("customer_id", uid).order(...)
QueryOrders(uid) == SortDesc({r \in orders : r.customer_id = uid})

\* the lifecycle of an order row, driven by vendors and riders
NextStatus(s) ==
    CASE s = "pending"    -> {"accepted", "cancelled"}
      [] s = "accepted"   -> {"in_transit", "cancelled"}
      [] s = "in_transit" -> {"delivered", "cancelled"}
      [] OTHER            -> {}

\* ------------------------------------------------------ text and numbers
\* A string is a sequence of characters.  Chars has a zero, another digit, the
\* decimal point, the minus sign, white space and a letter.
Chars == {"0", "1", ".", "-", " ", "a"}

Digits == {"0", "1"}

DigitValue(c) == IF c = "1" THEN 1 ELSE 0

Rep(c, n) == [i \in 1..n |-> c]

RECURSIVE TrimStart(_)
TrimStart(s) ==
    IF s /= <<>> /\ Head(s) = " " THEN TrimStart(Tail(s)) ELSE s

RECURSIVE TrimEnd(_)
TrimEnd(s) ==
    IF s /= <<>> /\ s[Len(s)] = " " THEN TrimEnd(SubSeq(s, 1, Len(s) - 1))
    ELSE s

\* String.prototype.trim, as z.string().trim() applies it
Trim(s) == TrimEnd(TrimStart(s))

\* the longest prefix of s made of digits
RECURSIVE DigitPrefix(_)
DigitPrefix(s) ==
    IF s /= <<>> /\ Head(s) \in Digits
    THEN <<Head(s)>> \o DigitPrefix(Tail(s))
    ELSE <<>>

RECURSIVE Decimal(_)
Decimal(ds) ==
    IF ds = <<>> THEN 0
    ELSE 10 * Decimal(SubSeq(ds, 1, Len(ds) - 1)) + DigitValue(ds[Len(ds)])

\* parseInt(val): white space, a sign, then the digits up to the first other
\* character; NaN without a digit.  The value is [nan, neg, int].
ParseInt(val) ==
    LET t    == TrimStart(val)
        neg  == t /= <<>> /\ Head(t) = "-"
        u    == IF neg THEN Tail(t) ELSE t
        ds   == DigitPrefix(u)
    IN  [nan |-> ds = <<>>, neg |-> neg, int |-> Decimal(ds), frac |-> <<>>]

\* parseFloat(val): as parseInt, with a decimal point and the digits after
\* it; NaN when there is no digit on either side of the point.
ParseFloat(val) ==
    LET t    == TrimStart(val)
        neg  == t /= <<>> /\ Head(t) = "-"
        u    == IF neg THEN Tail(t) ELSE t
        ds   == DigitPrefix(u)
        rest == SubSeq(u, Len(ds) + 1, Len(u))
        fs   == IF rest /= <<>> /\ Head(rest) = "."
                THEN DigitPrefix(Tail(rest)) ELSE <<>>
    IN  [nan |-> ds = <<>> /\ fs = <<>>, neg |-> neg, int |-> Decimal(ds),
         frac |-> fs]

\* num = 0, also for -0
IsZero(num) == num.int = 0 /\ \A i \in 1..Len(num.frac) : num.frac[i] = "0"

\* !isNaN(num) && num > 0
Positive(num) == ~num.nan /\ ~num.neg /\ ~IsZero(num)

\* !isNaN(num) && num >= 0
NotNegative(num) == ~num.nan /\ (~num.neg \/ IsZero(num))

\* ----------------------------------------------------------------- Init
\* the customer dashboard as useState constructs it, lines 26-28
DashboardNew ==
    /\ orders = {}
    /\ updates = 0
    /\ mounted = "no"
    /\ channel = 0
    /\ subscribed = 0
    /\ activeOrders = <<>>
    /\ orderHistory = <<>>
    /\ loading = TRUE
    /\ check = [pc |-> "idle", uid |-> None]
    /\ loads = <<>>
    /\ signOut = "idle"
    /\ location = "/customer"
    /\ fetched = [set |-> FALSE, by |-> None, uid |-> None, data |-> <<>>,
                  late |-> FALSE, was |-> {}]

EmptyForm == [name |-> <<>>, description |-> <<>>, price |-> <<>>,
              stock |-> <<>>, category |-> <<>>]

\* null where the source has a Product
NoProduct == [id |-> None, image_url |-> None, created_at |-> 0]

\* a step that sends nothing
NoRequest == [op |-> None]

SubmitIdle == [pc |-> "idle", form |-> EmptyForm, editing |-> NoProduct,
               image |-> None, url |-> None]

\* the vendor dashboard as useState constructs it, lines 48-61, over an empty
\* products table
VendorNew ==
    /\ productsTable = [rows |-> {}, made |-> {}]
    /\ products = <<>>
    /\ formData = EmptyForm
    /\ editingProduct = NoProduct
    /\ imageFile = None
    /\ isDialogOpen = FALSE
    /\ uploading = FALSE
    /\ submit = SubmitIdle
    /\ deletes = {}
    /\ productLoads = 0
    /\ sent = NoRequest
    /\ failure = None

SignUpIdle == [pc |-> "idle", email |-> None, role |-> None]

\* the Auth page as useState constructs it, lines 13-19, over a backend
\* without users
AuthNew ==
    /\ accounts = {}
    /\ roleRows = {}
    /\ isLogin = TRUE
    /\ email = None
    /\ selectedRole = "customer"
    /\ authLoading = FALSE
    /\ signUp = SignUpIdle

Init ==
    /\ session \in Users \cup {None}
    /\ notice = None
    /\ DashboardNew
    /\ VendorNew
    /\ AuthNew

\* ------------------------------------------------------------- helpers
\* loadOrders(): the synchronous part, up to the first await.  `late` notes
\* that a call started after this one has already set the lists.
StartLoad(ls, by) ==
    Append(ls, [pc |-> "awaitSession", by |-> by, uid |-> None,
                data |-> <<>>, error |-> FALSE, late |-> FALSE])

RemoveChannelSkipped == UNCHANGED channel

\* the effect's cleanup: supabase.removeChannel(channel)
RemoveChannel == channel' = 0

\* navigate(to): the route changes and the dashboard, if shown, unmounts
Navigate(to) ==
    /\ location' = to
    /\ IF mounted = "yes"
       THEN mounted' = "gone" /\ RemoveChannel
       ELSE UNCHANGED <<mounted, channel>>

\* a handler that reloads only when no load is in flight
OnChangeIdle(payload) ==
    loads' = IF loads = <<>> THEN StartLoad(loads, "event") ELSE loads

\* the postgres_changes handler, lines 43-46: the payload is only logged
OnChange(payload) == loads' = StartLoad(loads, "event")

\* ------------------------------------------------------------- actions
\* useEffect(() => { checkCustomerAndLoadOrders(); channel...subscribe() }, [])
Mount ==
    /\ mounted = "no"
    /\ mounted' = "yes"
    /\ check' = [pc |-> "awaitSession", uid |-> None]
    /\ channel' = channel + 1
    /\ subscribed' = subscribed + 1
    /\ notice' = None
    /\ UNCHANGED <<session, orders, updates, activeOrders, orderHistory, loading,
                   loads, signOut, location, fetched>>
    /\ UNCHANGED otherPages

\* checkCustomerAndLoadOrders, lines 56-67: getSession() resolves; with a
\* session the role lookup is sent
CheckSession ==
    /\ check.pc = "awaitSession"
    /\ IF session = None
       THEN /\ Navigate("/auth")
            /\ check' = [pc |-> "authRequired", uid |-> None]
       ELSE /\ check' = [pc |-> "awaitRole", uid |-> session]
            /\ UNCHANGED <<location, mounted, channel>>
    /\ notice' = None
    /\ UNCHANGED <<session, orders, updates, subscribed, activeOrders, orderHistory,
                   loading, loads, signOut, fetched>>
    /\ UNCHANGED otherPages

\* CheckRole turning away vendors only
CheckRoleVendor ==
    /\ check.pc = "awaitRole"
    /\ \E failed \in BOOLEAN :
         LET roleData == IF failed THEN None ELSE user_roles[check.uid]
         IN  IF roleData = "vendor"
             THEN /\ notice' = AccessDenied
                  /\ Navigate("/")
                  /\ check' = [check EXCEPT !.pc = "denied"]
                  /\ UNCHANGED loads
             ELSE /\ loads' = StartLoad(loads, "init")
                  /\ check' = [check EXCEPT !.pc = "ok"]
                  /\ notice' = None
                  /\ UNCHANGED <<location, mounted, channel>>
    /\ UNCHANGED <<session, orders, updates, subscribed, activeOrders,
                   orderHistory, loading, signOut, fetched>>
    /\ UNCHANGED otherPages

\* checkCustomerAndLoadOrders, lines 63-75: the role lookup resolves; a
\* lookup that fails or finds no row yields roleData = null
CheckRole ==
    /\ check.pc = "awaitRole"
    /\ \E failed \in BOOLEAN :
         LET roleData == IF failed THEN None ELSE user_roles[check.uid]
         IN  IF roleData /= "customer"
             THEN /\ notice' = AccessDenied
                  /\ Navigate("/")
                  /\ check' = [check EXCEPT !.pc = "denied"]
                  /\ UNCHANGED loads
             ELSE /\ loads' = StartLoad(loads, "init")
                  /\ check' = [check EXCEPT !.pc = "ok"]
                  /\ notice' = None
                  /\ UNCHANGED <<location, mounted, channel>>
    /\ UNCHANGED <<session, orders, updates, subscribed, activeOrders, orderHistory,
                   loading, signOut, fetched>>
    /\ UNCHANGED otherPages

\* LoadSession without the return on a missing session
LoadSessionAnonymous(i) ==
    /\ loads[i].pc = "awaitSession"
    /\ \E error \in BOOLEAN :
         loads' = [loads EXCEPT
                     ![i].pc = "awaitResponse",
                     ![i].uid = session,
                     ![i].error = error,
                     ![i].data = IF error THEN <<>> ELSE QueryOrders(session)]
    /\ notice' = None
    /\ UNCHANGED <<session, orders, updates, mounted, channel, subscribed,
                   activeOrders, orderHistory, loading, check, signOut,
                   location, fetched>>
    /\ UNCHANGED otherPages

\* LoadSession returning on a missing session without the finally block
LoadSessionStaysLoading(i) ==
    /\ loads[i].pc = "awaitSession"
    /\ IF session = None
       THEN loads' = Remove(loads, i)
       ELSE \E error \in BOOLEAN :
               loads' = [loads EXCEPT
                           ![i].pc = "awaitResponse",
                           ![i].uid = session,
                           ![i].error = error,
                           ![i].data = IF error THEN <<>>
                                       ELSE QueryOrders(session)]
    /\ notice' = None
    /\ UNCHANGED <<session, orders, updates, mounted, channel, subscribed,
                   activeOrders, orderHistory, loading, check, signOut,
                   location, fetched>>
    /\ UNCHANGED otherPages

\* loadOrders, lines 80-88: getSession() resolves; with a session the orders
\* query is sent, and the backend answers it from the table as it is now, or
\* fails.  The response travels until LoadResolve.
LoadSession(i) ==
    /\ loads[i].pc = "awaitSession"
    /\ IF session = None
       THEN /\ loads' = Remove(loads, i)
            /\ loading' = FALSE
       ELSE /\ \E error \in BOOLEAN :
                 loads' = [loads EXCEPT
                             ![i].pc = "awaitResponse",
                             ![i].uid = session,
                             ![i].error = error,
                             ![i].data = IF error THEN <<>>
                                         ELSE QueryOrders(session)]
            /\ UNCHANGED loading
    /\ notice' = None
    /\ UNCHANGED <<session, orders, updates, mounted, channel, subscribed,
                   activeOrders, orderHistory, check, signOut, location,
                   fetched>>
    /\ UNCHANGED otherPages

\* LoadResolve with the lists cleared when the fetch fails
LoadResolveClears(i) ==
    /\ loads[i].pc = "awaitResponse"
    /\ IF loads[i].error
       THEN /\ notice' = LoadFailed
            /\ loads' = Remove(loads, i)
            /\ activeOrders' = <<>>
            /\ orderHistory' = <<>>
            /\ UNCHANGED fetched
       ELSE /\ activeOrders' = FilterActive(loads[i].data)
            /\ orderHistory' = FilterHistory(loads[i].data)
            /\ fetched' = [set |-> TRUE, by |-> loads[i].by,
                           uid |-> loads[i].uid, data |-> loads[i].data,
                           late |-> loads[i].late,
                           was |-> fetched.was
                                     \cup Ids(FilterHistory(loads[i].data))]
            /\ loads' = Remove([j \in 1..Len(loads) |->
                                  IF j < i THEN [loads[j] EXCEPT !.late = TRUE]
                                  ELSE loads[j]], i)
            /\ notice' = None
    /\ loading' = FALSE
    /\ UNCHANGED <<session, orders, updates, mounted, channel, subscribed,
                   check, signOut, location>>
    /\ UNCHANGED otherPages

\* LoadResolve with the response of an overtaken call dropped
LoadResolveLatest(i) ==
    /\ loads[i].pc = "awaitResponse"
    /\ IF loads[i].error
       THEN /\ notice' = LoadFailed
            /\ loads' = Remove(loads, i)
            /\ UNCHANGED <<activeOrders, orderHistory, fetched>>
       ELSE /\ IF loads[i].late
               THEN UNCHANGED <<activeOrders, orderHistory, fetched>>
               ELSE /\ activeOrders' = FilterActive(loads[i].data)
                    /\ orderHistory' = FilterHistory(loads[i].data)
                    /\ fetched' = [set |-> TRUE, by |-> loads[i].by,
                                   uid |-> loads[i].uid,
                                   data |-> loads[i].data, late |-> FALSE,
                                   was |-> fetched.was
                                     \cup Ids(FilterHistory(loads[i].data))]
            /\ loads' = Remove([j \in 1..Len(loads) |->
                                  IF j < i THEN [loads[j] EXCEPT !.late = TRUE]
                                  ELSE loads[j]], i)
            /\ notice' = None
    /\ loading' = FALSE
    /\ UNCHANGED <<session, orders, updates, mounted, channel, subscribed,
                   check, signOut, location>>
    /\ UNCHANGED otherPages

\* LoadResolve adding the fetched orders to the lists
LoadResolveAppends(i) ==
    /\ loads[i].pc = "awaitResponse"
    /\ IF loads[i].error
       THEN /\ notice' = LoadFailed
            /\ loads' = Remove(loads, i)
            /\ UNCHANGED <<activeOrders, orderHistory, fetched>>
       ELSE /\ activeOrders' = activeOrders \o FilterActive(loads[i].data)
            /\ orderHistory' = orderHistory \o FilterHistory(loads[i].data)
            /\ fetched' = [set |-> TRUE, by |-> loads[i].by,
                           uid |-> loads[i].uid, data |-> loads[i].data,
                           late |-> loads[i].late,
                           was |-> fetched.was
                                     \cup Ids(FilterHistory(loads[i].data))]
            /\ loads' = Remove([j \in 1..Len(loads) |->
                                  IF j < i THEN [loads[j] EXCEPT !.late = TRUE]
                                  ELSE loads[j]], i)
            /\ notice' = None
    /\ loading' = FALSE
    /\ UNCHANGED <<session, orders, updates, mounted, channel, subscribed,
                   check, signOut, location>>
    /\ UNCHANGED otherPages

\* loadOrders, lines 90-108: the response arrives and the call ends.  The two
\* setters run in the same synchronous block, so the lists change together.
LoadResolve(i) ==
    /\ loads[i].pc = "awaitResponse"
    /\ IF loads[i].error
       THEN /\ notice' = LoadFailed
            /\ loads' = Remove(loads, i)
            /\ UNCHANGED <<activeOrders, orderHistory, fetched>>
       ELSE /\ activeOrders' = FilterActive(loads[i].data)
            /\ orderHistory' = FilterHistory(loads[i].data)
            /\ fetched' = [set |-> TRUE, by |-> loads[i].by,
                           uid |-> loads[i].uid, data |-> loads[i].data,
                           late |-> loads[i].late,
                           was |-> fetched.was
                                     \cup Ids(FilterHistory(loads[i].data))]
            /\ loads' = Remove([j \in 1..Len(loads) |->
                                  IF j < i THEN [loads[j] EXCEPT !.late = TRUE]
                                  ELSE loads[j]], i)
            /\ notice' = None
    /\ loading' = FALSE
    /\ UNCHANGED <<session, orders, updates, mounted, channel, subscribed, check,
                   signOut, location>>
    /\ UNCHANGED otherPages

\* checkCustomerAndLoadOrders, lines 56-61: getSession() fails while the
\* stored session is refreshed (without a stored session there is nothing to
\* refresh).  It either rejects, and nothing in the function catches that, or
\* resolves with an error and a null session, which line 58 takes for no
\* session; the error itself is never read.
CheckSessionFails ==
    /\ check.pc = "awaitSession"
    /\ session /= None
    /\ \E how \in {"rejected", "error"} :
         IF how = "rejected"
         THEN /\ check' = [pc |-> "crashed", uid |-> None]
              /\ UNCHANGED <<location, mounted, channel>>
         ELSE /\ Navigate("/auth")
              /\ check' = [pc |-> "authRequired", uid |-> None]
    /\ notice' = None
    /\ UNCHANGED <<session, orders, updates, subscribed, activeOrders,
                   orderHistory, loading, loads, signOut, fetched>>
    /\ UNCHANGED otherPages

\* loadOrders, lines 79-81 and 103-108: getSession() fails.  A rejection is
\* caught by the try block; an error with a null session returns at line 81.
LoadSessionFails(i) ==
    /\ loads[i].pc = "awaitSession"
    /\ session /= None
    /\ \E how \in {"rejected", "error"} :
         notice' = IF how = "rejected" THEN LoadFailed ELSE None
    /\ loads' = Remove(loads, i)
    /\ loading' = FALSE
    /\ UNCHANGED <<session, orders, updates, mounted, channel, subscribed,
                   activeOrders, orderHistory, check, signOut, location,
                   fetched>>
    /\ UNCHANGED otherPages

\* handleSignOut, line 112: the button exists once loading is false
HandleSignOut ==
    /\ mounted = "yes"
    /\ ~loading
    /\ signOut = "idle"
    /\ signOut' = "await"
    /\ notice' = None
    /\ UNCHANGED <<session, orders, updates, mounted, channel, subscribed,
                   activeOrders, orderHistory, loading, check, loads, location,
                   fetched>>
    /\ UNCHANGED otherPages

\* handleSignOut, lines 112-113: signOut() resolves
SignOutResolve ==
    /\ signOut = "await"
    /\ signOut' = "done"
    /\ session' = None
    /\ Navigate("/auth")
    /\ notice' = None
    /\ UNCHANGED <<orders, updates, subscribed, activeOrders, orderHistory, loading,
                   check, loads, fetched>>
    /\ UNCHANGED otherPages

\* the effect's cleanup, lines 50-52: the user leaves the page
Unmount ==
    /\ mounted = "yes"
    /\ mounted' = "gone"
    /\ RemoveChannel
    /\ location' = "elsewhere"
    /\ notice' = None
    /\ UNCHANGED <<session, orders, updates, subscribed, activeOrders, orderHistory,
                   loading, check, loads, signOut, fetched>>
    /\ UNCHANGED otherPages

\* backend: a user places an order; INSERTs are not pushed to the channel,
\* which listens for UPDATE only (line 39)
PlaceOrder ==
    /\ Cardinality(orders) < MaxOrders
    /\ \E u \in Buyers :
         LET id == Cardinality(orders) + 1
         IN  orders' = orders \cup {[id |-> id, customer_id |-> u,
                                     status |-> "pending", created_at |-> id]}
    /\ notice' = None
    /\ UNCHANGED <<session, updates, mounted, channel, subscribed,
                   activeOrders, orderHistory, loading, check, loads, signOut,
                   location, fetched>>
    /\ UNCHANGED otherPages

\* backend: a vendor or rider moves an order on; the UPDATE is pushed to the
\* subscribed channel, whose handler runs with the new row as payload
UpdateStatus ==
    /\ \E r \in orders, s \in Statuses :
         /\ s \in NextStatus(r.status)
         /\ orders' = (orders \ {r}) \cup {[r EXCEPT !.status = s]}
         /\ IF channel > 0
            THEN OnChange([r EXCEPT !.status = s])
            ELSE UNCHANGED loads
    /\ IF mounted = "no"
       THEN UNCHANGED updates
       ELSE updates < MaxUpdates /\ updates' = updates + 1
    /\ notice' = None
    /\ UNCHANGED <<session, mounted, channel, subscribed, activeOrders,
                   orderHistory, loading, check, signOut, location, fetched>>
    /\ UNCHANGED otherPages

Next ==
    \/ Mount
    \/ CheckSession
    \/ CheckRole
    \/ \E i \in 1..Len(loads) : LoadSession(i)
    \/ \E i \in 1..Len(loads) : LoadResolve(i)
    \/ HandleSignOut
    \/ SignOutResolve
    \/ Unmount
    \/ PlaceOrder
    \/ UpdateStatus

Spec == Init /\ [][Next]_vars

\* the dashboard with session lookups that may fail
NextFailing ==
    \/ Next
    \/ CheckSessionFails
    \/ \E i \in 1..Len(loads) : LoadSessionFails(i)

SpecFailing == Init /\ [][NextFailing]_vars

\* ======================================================= vendor dashboard
\* productSchema, VendorDashboard.tsx lines 21-33
NameMax == 100

DescriptionMax == 1000

CategoryMax == 50

NameRequired == "Product name is required"

PriceMessage == "Price must be greater than 0"

StockMessage == "Stock must be 0 or greater"

\* the message of .max(n), which the source leaves to the library
TooBig == "too_big"

NotAuthenticated == "Not authenticated"

BackendError == "the error.message of the backend"

ImageTooLarge == "Image size must be less than 5MB"

ProductAdded == "Product added successfully!"

ProductUpdated == "Product updated successfully!"

ProductDeleted == "Product deleted successfully!"

DeleteFailed == "Failed to delete product"

LoadProductsFailed == "Failed to load products"

\* the issues of productSchema.safeParse(form), in the order of the fields
SchemaErrors(form) ==
       (IF Len(Trim(form.name)) < 1 THEN <<NameRequired>> ELSE <<>>)
    \o (IF Len(Trim(form.name)) > NameMax THEN <<TooBig>> ELSE <<>>)
    \o (IF Len(Trim(form.description)) > DescriptionMax
        THEN <<TooBig>> ELSE <<>>)
    \o (IF Positive(ParseFloat(form.price)) THEN <<>> ELSE <<PriceMessage>>)
    \o (IF NotNegative(ParseInt(form.stock)) THEN <<>> ELSE <<StockMessage>>)
    \o (IF Len(Trim(form.category)) > CategoryMax THEN <<TooBig>> ELSE <<>>)

\* productSchema.safeParse(form): the three trimmed fields come back trimmed
SafeParse(form) ==
    [success |-> SchemaErrors(form) = <<>>, errors |-> SchemaErrors(form),
     data |-> [form EXCEPT !.name = Trim(form.name),
                           !.description = Trim(form.description),
                           !.category = Trim(form.category)]]

\* the texts of at most n characters
Texts(n) == UNION {[1..k -> Chars] : k \in 0..n}

\* names around the two limits of the schema, bare and padded with a blank
Names == {Rep(" ", k) \o Rep("a", n) \o Rep(" ", k) :
            k \in 0..1, n \in {0, 1, NameMax, NameMax + 1}}

\* a form the schema accepts
PlainForm == [name |-> <<"a">>, description |-> <<>>, price |-> <<"1">>,
              stock |-> <<"0">>, category |-> <<>>]

\* what the vendor types: the plain form with one field replaced
Forms ==
    {[PlainForm EXCEPT !.name = t] : t \in Names}
    \cup {[PlainForm EXCEPT !.price = t] : t \in Texts(MaxText)}
    \cup {[PlainForm EXCEPT !.stock = t] : t \in Texts(MaxText)}
    \cup {[PlainForm EXCEPT !.description = Rep("a", DescriptionMax + 1)],
          [PlainForm EXCEPT !.category = Rep("a", CategoryMax + 1)]}

\* the rows newest first, as loadProducts orders them
RECURSIVE NewestProductsFirst(_)
NewestProductsFirst(S) ==
    IF S = {} THEN <<>>
    ELSE LET newest == CHOOSE r \in S :
                         \A q \in S : q.created_at <= r.created_at
         IN  <<newest>> \o NewestProductsFirst(S \ {newest})

\* the operations of the page that wait for the backend
InFlight ==
    productLoads + Cardinality(deletes) + (IF submit.pc = "idle" THEN 0 ELSE 1)

\* what a step of the page tells the vendor and the backend
Outputs(message, request, failed) ==
    /\ notice' = message
    /\ sent' = request
    /\ failure' = failed

\* the vendor page leaves the other pages alone
VendorOnly == UNCHANGED <<session, dashVars, authVars>>

\* resetForm, lines 161-172
ResetForm ==
    /\ formData' = EmptyForm
    /\ imageFile' = None
    /\ editingProduct' = NoProduct

\* loadProducts(), up to its await
LoadProducts == productLoads' = productLoads + 1

\* DialogTrigger and onOpenChange(true), lines 281-284 and 408
OpenDialog ==
    /\ ~isDialogOpen
    /\ isDialogOpen' = TRUE
    /\ Outputs(None, NoRequest, None)
    /\ UNCHANGED <<productsTable, products, formData, editingProduct,
                   imageFile, uploading, submit, deletes, productLoads>>
    /\ VendorOnly

\* onOpenChange(false): setIsDialogOpen(false); resetForm()
CloseDialog ==
    /\ isDialogOpen
    /\ isDialogOpen' = FALSE
    /\ ResetForm
    /\ Outputs(None, NoRequest, None)
    /\ UNCHANGED <<productsTable, products, uploading, submit, deletes,
                   productLoads>>
    /\ VendorOnly

\* the onChange handlers of the inputs, lines 308-348: the vendor fills the
\* form between two submissions
FillForm ==
    /\ isDialogOpen
    /\ submit.pc = "idle"
    /\ formData' \in Forms
    /\ Outputs(None, NoRequest, None)
    /\ UNCHANGED <<productsTable, products, editingProduct, imageFile,
                   isDialogOpen, uploading, submit, deletes, productLoads>>
    /\ VendorOnly

\* handleImageChange, lines 106-120
HandleImageChange ==
    /\ isDialogOpen
    /\ \E size \in {"small", "large"} :
         IF size = "large"
         THEN /\ Outputs(ImageTooLarge, NoRequest, None)
              /\ UNCHANGED imageFile
         ELSE /\ Outputs(None, NoRequest, None)
              /\ imageFile' = "file"
    /\ UNCHANGED <<productsTable, products, formData, editingProduct,
                   isDialogOpen, uploading, submit, deletes, productLoads>>
    /\ VendorOnly

\* removeImage, lines 122-125
RemoveImage ==
    /\ isDialogOpen
    /\ imageFile /= None
    /\ imageFile' = None
    /\ Outputs(None, NoRequest, None)
    /\ UNCHANGED <<productsTable, products, formData, editingProduct,
                   isDialogOpen, uploading, submit, deletes, productLoads>>
    /\ VendorOnly

\* handleEdit(product), lines 148-159.  The model follows the id and the
\* image_url of a row; in its other columns every row holds the plain
\* product, which the form shows as PlainForm.
HandleEdit ==
    /\ \E product \in Range(products) : editingProduct' = product
    /\ formData' = PlainForm
    /\ isDialogOpen' = TRUE
    /\ Outputs(None, NoRequest, None)
    /\ UNCHANGED <<productsTable, products, imageFile, uploading, submit,
                   deletes, productLoads>>
    /\ VendorOnly

\* handleSubmit without the early return of lines 182-186
HandleSubmitUnchecked ==
    /\ isDialogOpen
    /\ ~uploading
    /\ submit.pc = "idle"
    /\ InFlight < MaxInFlight
    /\ editingProduct = NoProduct => productsTable.made /= ProductIds
    /\ submit' = [pc |-> "awaitSession", form |-> formData,
                  editing |-> editingProduct, image |-> imageFile,
                  url |-> None]
    /\ uploading' = TRUE
    /\ Outputs(None, NoRequest, None)
    /\ UNCHANGED <<productsTable, products, formData, editingProduct,
                   imageFile, isDialogOpen, deletes, productLoads>>
    /\ VendorOnly

\* handleSubmit, lines 174-189, up to the await of getSession.  A form the
\* schema rejects ends the call: setUploading(true), the toast, the return
\* and setUploading(false) of the finally block are one step.
HandleSubmit ==
    /\ isDialogOpen
    /\ ~uploading
    /\ submit.pc = "idle"
    /\ InFlight < MaxInFlight
    /\ editingProduct = NoProduct => productsTable.made /= ProductIds
    /\ LET validationResult == SafeParse(formData)
       IN  IF ~validationResult.success
           THEN /\ Outputs(validationResult.errors[1], NoRequest, None)
                /\ UNCHANGED <<submit, uploading>>
           ELSE /\ submit' = [pc |-> "awaitSession", form |-> formData,
                              editing |-> editingProduct, image |-> imageFile,
                              url |-> None]
                /\ uploading' = TRUE
                /\ Outputs(None, NoRequest, None)
    /\ UNCHANGED <<productsTable, products, formData, editingProduct,
                   imageFile, isDialogOpen, deletes, productLoads>>
    /\ VendorOnly

\* the catch and finally blocks of handleSubmit with a resetForm() added
SubmitFailsResets(message, what) ==
    /\ Outputs(message, NoRequest, what)
    /\ uploading' = FALSE
    /\ submit' = SubmitIdle
    /\ ResetForm
    /\ UNCHANGED <<productsTable, products, isDialogOpen, deletes,
                   productLoads>>
    /\ VendorOnly

\* the catch and finally blocks of handleSubmit, lines 232-236
SubmitFails(message, what) ==
    /\ Outputs(message, NoRequest, what)
    /\ uploading' = FALSE
    /\ submit' = SubmitIdle
    /\ UNCHANGED <<productsTable, products, formData, editingProduct,
                   imageFile, isDialogOpen, deletes, productLoads>>
    /\ VendorOnly

\* the update or insert of lines 196-224, as handleSubmit sends it
Mutation(url) ==
    LET data == SafeParse(submit.form).data
    IN  [op |-> IF submit.editing /= NoProduct THEN "update" ELSE "insert",
         id |-> IF submit.editing /= NoProduct THEN submit.editing.id ELSE None,
         name |-> data.name,
         price |-> ParseFloat(data.price),
         stock |-> ParseInt(data.stock),
         image_url |-> url]

\* lines 188-224: getSession() resolves; without a session the call throws,
\* with an image uploadImage is called, else the row is sent
SubmitSession ==
    /\ submit.pc = "awaitSession"
    /\ IF session = None
       THEN SubmitFails(NotAuthenticated, "session")
       ELSE /\ IF submit.image /= None
               THEN /\ submit' = [submit EXCEPT !.pc = "uploadSession"]
                    /\ Outputs(None, NoRequest, None)
               ELSE LET url == IF submit.editing /= NoProduct
                               THEN submit.editing.image_url ELSE None
                    IN  /\ submit' = [submit EXCEPT !.pc = "awaitMutation",
                                                    !.url = url]
                        /\ Outputs(None, Mutation(url), None)
            /\ UNCHANGED <<productsTable, products, formData, editingProduct,
                           imageFile, isDialogOpen, uploading, deletes,
                           productLoads>>
            /\ VendorOnly

\* uploadImage, lines 127-137: getSession() resolves and the file is sent
UploadSession ==
    /\ submit.pc = "uploadSession"
    /\ IF session = None
       THEN SubmitFails(NotAuthenticated, "session")
       ELSE /\ submit' = [submit EXCEPT !.pc = "awaitUpload"]
            /\ Outputs(None, [op |-> "upload"], None)
            /\ UNCHANGED <<productsTable, products, formData, editingProduct,
                           imageFile, isDialogOpen, uploading, deletes,
                           productLoads>>
            /\ VendorOnly

\* uploadImage, lines 139-145, and lines 196-224: the storage answers; with
\* the public url the row is sent
UploadResolve ==
    /\ submit.pc = "awaitUpload"
    /\ \E ok \in BOOLEAN :
         IF ~ok
         THEN SubmitFails(BackendError, "upload")
         ELSE /\ submit' = [submit EXCEPT !.pc = "awaitMutation",
                                          !.url = "url"]
              /\ Outputs(None, Mutation("url"), None)
              /\ UNCHANGED <<productsTable, products, formData,
                             editingProduct, imageFile, isDialogOpen,
                             uploading, deletes, productLoads>>
              /\ VendorOnly

\* lines 208-236: the products table answers the update or the insert
MutationResolve ==
    /\ submit.pc = "awaitMutation"
    /\ \E ok \in BOOLEAN :
         IF ~ok
         THEN SubmitFails(BackendError,
                          IF submit.editing /= NoProduct THEN "update"
                          ELSE "create")
         ELSE /\ IF submit.editing /= NoProduct
                 THEN productsTable' =
                        [productsTable EXCEPT !.rows =
                           {IF r.id = submit.editing.id
                            THEN [r EXCEPT !.image_url = submit.url]
                            ELSE r : r \in productsTable.rows}]
                 ELSE LET id == CHOOSE p \in ProductIds :
                                       p \notin productsTable.made
                      IN  productsTable' =
                            [rows |-> productsTable.rows \cup
                                 {[id |-> id, image_url |-> submit.url,
                                   created_at |->
                                     Cardinality(productsTable.made) + 1]},
                             made |-> productsTable.made \cup {id}]
              /\ Outputs(IF submit.editing /= NoProduct THEN ProductUpdated
                         ELSE ProductAdded, NoRequest, None)
              /\ isDialogOpen' = FALSE
              /\ ResetForm
              /\ LoadProducts
              /\ uploading' = FALSE
              /\ submit' = SubmitIdle
              /\ UNCHANGED <<products, deletes>>
              /\ VendorOnly

\* handleDelete(id), lines 239-241, up to the await
HandleDelete ==
    /\ InFlight < MaxInFlight
    /\ \E product \in Range(products) :
         /\ product.id \notin deletes
         /\ deletes' = deletes \cup {product.id}
         /\ Outputs(None, [op |-> "delete", id |-> product.id], None)
    /\ UNCHANGED <<productsTable, products, formData, editingProduct,
                   imageFile, isDialogOpen, uploading, submit, productLoads>>
    /\ VendorOnly

\* handleDelete, lines 241-247: the products table answers the delete
DeleteResolve(id) ==
    /\ id \in deletes
    /\ deletes' = deletes \ {id}
    /\ \E ok \in BOOLEAN :
         IF ~ok
         THEN /\ Outputs(DeleteFailed, NoRequest, "delete")
              /\ UNCHANGED <<productsTable, productLoads>>
         ELSE /\ productsTable' =
                   [productsTable EXCEPT !.rows = {r \in @ : r.id /= id}]
              /\ Outputs(ProductDeleted, NoRequest, None)
              /\ LoadProducts
    /\ UNCHANGED <<products, formData, editingProduct, imageFile,
                   isDialogOpen, uploading, submit>>
    /\ VendorOnly

\* loadProducts, lines 97-103: the products table answers the select
LoadProductsResolve ==
    /\ productLoads > 0
    /\ productLoads' = productLoads - 1
    /\ \E ok \in BOOLEAN :
         IF ~ok
         THEN /\ Outputs(LoadProductsFailed, NoRequest, "load")
              /\ UNCHANGED products
         ELSE /\ products' = NewestProductsFirst(productsTable.rows)
              /\ Outputs(None, NoRequest, None)
    /\ UNCHANGED <<productsTable, formData, editingProduct, imageFile,
                   isDialogOpen, uploading, submit, deletes>>
    /\ VendorOnly

\* the vendor dashboard once checkVendorAndLoadProducts has shown the (empty)
\* list of a vendor; the session may have expired since
VendorInit ==
    /\ session \in {"vend", None}
    /\ notice = None
    /\ DashboardNew
    /\ VendorNew
    /\ AuthNew

VendorNext ==
    \/ OpenDialog
    \/ CloseDialog
    \/ FillForm
    \/ HandleImageChange
    \/ RemoveImage
    \/ HandleEdit
    \/ HandleSubmit
    \/ SubmitSession
    \/ UploadSession
    \/ UploadResolve
    \/ MutationResolve
    \/ HandleDelete
    \/ \E id \in deletes : DeleteResolve(id)
    \/ LoadProductsResolve

SpecVendor == VendorInit /\ [][VendorNext]_vars

\* ================================================================ Auth page
\* the addresses a visitor signs up with
Emails == {"a@x", "b@x"}

\* type UserRole, line 10
Roles == {"customer", "vendor", "rider"}

AccountCreated == "Account created!"

SignUpError == "Error"

\* the Auth page leaves the other pages alone
AuthOnly == UNCHANGED <<session, dashVars, vendorVars>>

\* setIsLogin(!isLogin), line 217
ToggleMode ==
    /\ isLogin' = ~isLogin
    /\ notice' = None
    /\ UNCHANGED <<accounts, roleRows, email, selectedRole, authLoading,
                   signUp>>
    /\ AuthOnly

\* setEmail(e.target.value), line 191
SetEmail ==
    /\ \E e \in Emails : email' = e
    /\ notice' = None
    /\ UNCHANGED <<accounts, roleRows, isLogin, selectedRole, authLoading,
                   signUp>>
    /\ AuthOnly

\* setSelectedRole(role.value), line 163
SetSelectedRole ==
    /\ ~isLogin
    /\ \E role \in Roles : selectedRole' = role
    /\ notice' = None
    /\ UNCHANGED <<accounts, roleRows, isLogin, email, authLoading, signUp>>
    /\ AuthOnly

\* handleSignUp, lines 39-54, up to the await of auth.signUp
HandleSignUp ==
    /\ ~isLogin
    /\ ~authLoading
    /\ email /= None
    /\ signUp.pc = "idle"
    /\ authLoading' = TRUE
    /\ signUp' = [pc |-> "awaitSignUp", email |-> email,
                  role |-> selectedRole]
    /\ notice' = None
    /\ UNCHANGED <<accounts, roleRows, isLogin, email, selectedRole>>
    /\ AuthOnly

\* the catch and finally blocks of handleSignUp, lines 73-82
SignUpFails ==
    /\ notice' = SignUpError
    /\ authLoading' = FALSE
    /\ signUp' = SignUpIdle

\* lines 44-66: auth.signUp answers; an error is thrown, a user gets its
\* role row sent, and without a user the call ends
SignUpResolve ==
    /\ signUp.pc = "awaitSignUp"
    /\ \E answer \in {"error", "user", "nothing"} :
         CASE answer = "error" ->
                /\ SignUpFails
                /\ UNCHANGED accounts
           [] answer = "user" ->
                /\ signUp.email \notin accounts
                /\ accounts' = accounts \cup {signUp.email}
                /\ signUp' = [signUp EXCEPT !.pc = "awaitRole"]
                /\ notice' = None
                /\ UNCHANGED authLoading
           [] answer = "nothing" ->
                /\ notice' = None
                /\ authLoading' = FALSE
                /\ signUp' = SignUpIdle
                /\ UNCHANGED accounts
    /\ UNCHANGED <<roleRows, isLogin, email, selectedRole>>
    /\ AuthOnly

\* lines 60-82: the user_roles table answers the insert
RoleResolve ==
    /\ signUp.pc = "awaitRole"
    /\ \E ok \in BOOLEAN :
         IF ok
         THEN /\ roleRows' = roleRows \cup {[user_id |-> signUp.email,
                                             role |-> signUp.role]}
              /\ notice' = AccountCreated
              /\ authLoading' = FALSE
              /\ signUp' = SignUpIdle
         ELSE /\ SignUpFails
              /\ UNCHANGED roleRows
    /\ UNCHANGED <<accounts, isLogin, email, selectedRole>>
    /\ AuthOnly

\* the Auth page of a visitor without a session
AuthInit ==
    /\ session = None
    /\ notice = None
    /\ DashboardNew
    /\ VendorNew
    /\ AuthNew

AuthNext ==
    \/ ToggleMode
    \/ SetEmail
    \/ SetSelectedRole
    \/ HandleSignUp
    \/ SignUpResolve
    \/ RoleResolve

SpecAuth == AuthInit /\ [][AuthNext]_vars

\* ---------------------------------------------------------------- claims
\* a load call seen without its `late` mark
Core(l) == [pc |-> l.pc, by |-> l.by, uid |-> l.uid, data |-> l.data,
            error |-> l.error]

Cores(ls) == [j \in 1..Len(ls) |-> Core(ls[j])]

\* this step ends the load call at position i
Ended(i) == Cores(loads') = Remove(Cores(loads), i)

\* C1: after a successful loadOrders every fetched order that is pending,
\* accepted or in_transit is in activeOrders and not in orderHistory, every
\* fetched order that is delivered or cancelled is in orderHistory and not in
\* activeOrders; and never is an order in both lists.
C1_Partition ==
    /\ Ids(activeOrders) \cap Ids(orderHistory) = {}
    /\ fetched.set =>
         \A o \in Range(fetched.data) :
            /\ o.status \in {"pending", "accepted", "in_transit"} =>
                 o \in Range(activeOrders) /\ o \notin Range(orderHistory)
            /\ o.status \in {"delivered", "cancelled"} =>
                 o \in Range(orderHistory) /\ o \notin Range(activeOrders)

\* a fetch with a delivered and a cancelled or an active order was applied
C1_Witness ==
    /\ fetched.set
    /\ \E o \in Range(fetched.data) : o.status = "delivered"
    /\ \E o \in Range(fetched.data) : o.status /= "delivered"
    /\ orderHistory /= <<>>

\* C2: after a successful loadOrders the two lists together hold exactly the
\* fetched orders: none omitted, none twice, none that was not fetched.
C2_ExactlyTheFetch ==
    fetched.set =>
        /\ Range(activeOrders) \cup Range(orderHistory) = Range(fetched.data)
        /\ Len(activeOrders) + Len(orderHistory) = Len(fetched.data)
        /\ Cardinality(Ids(activeOrders)) = Len(activeOrders)
        /\ Cardinality(Ids(orderHistory)) = Len(orderHistory)

\* a fetch of two orders, one for each list, was applied
C2_Witness ==
    /\ fetched.set
    /\ Len(fetched.data) >= 2
    /\ activeOrders /= <<>>
    /\ orderHistory /= <<>>

\* C3: when the fetch of a loadOrders call fails, the lists keep the values
\* they had and the "Failed to load orders" notice is emitted.
C3_FailureKeepsLists ==
    [][\A i \in 1..Len(loads) :
          (loads[i].pc = "awaitResponse" /\ loads[i].error /\ Ended(i))
          => /\ activeOrders' = activeOrders
             /\ orderHistory' = orderHistory
             /\ notice' = LoadFailed]_vars

\* a fetch has just failed while the lists held orders
C3_Witness ==
    /\ notice = LoadFailed
    /\ fetched.set
    /\ activeOrders /= <<>> \/ orderHistory /= <<>>

\* C4: overlapping loadOrders calls are neither cancelled nor merged, and the
\* last response wins: a response sets the lists to its own snapshot even
\* when a call started later has already set them.
C4_LastResponseWins ==
    [][/\ Len(loads') >= Len(loads) - 1
       /\ Len(loads') > Len(loads) =>
            SubSeq(loads', 1, Len(loads)) = loads
       /\ \A i \in 1..Len(loads) :
            (loads[i].pc = "awaitResponse" /\ ~loads[i].error /\ loads[i].late
               /\ Ended(i))
            => /\ Range(activeOrders') \cup Range(orderHistory')
                    = Range(loads[i].data)
               /\ fetched'.data = loads[i].data]_vars

\* the call started first resolved last: the lists show its snapshot, which
\* differs from the table in a status only
C4_Witness ==
    /\ mounted = "yes"
    /\ loads = <<>>
    /\ fetched.set
    /\ fetched.late
    /\ fetched.uid = session
    /\ Ids(fetched.data) = Ids(QueryOrders(session))
    /\ fetched.data /= QueryOrders(session)

\* C5: once the customer's orders stop changing and no fetch is outstanding,
\* the two lists are the partition of the orders the backend holds for the
\* customer.
C5_AlwaysCurrent ==
    (/\ mounted = "yes"
     /\ check.pc = "ok"
     /\ loads = <<>>
     /\ fetched.set
     /\ notice /= LoadFailed
     /\ session /= None)
    => /\ Range(activeOrders) =
            {r \in orders : r.customer_id = session
                            /\ r.status \in {"pending", "accepted", "in_transit"}}
       /\ Range(orderHistory) =
            {r \in orders : r.customer_id = session
                            /\ r.status \in {"delivered", "cancelled"}}

\* C6: the lists are only ever set from a fetch made for a user whose role
\* is customer.
C6_CustomerOnly ==
    fetched.set => user_roles[fetched.uid] = "customer"

\* C7: when the role lookup of checkCustomerAndLoadOrders resolves for a user
\* whose role is not customer, the access-denied notice is raised, the router
\* goes to "/", and no loadOrders call is started by it.
C7_AccessDenied ==
    [][/\ (check.pc = "awaitRole" /\ check' /= check
             /\ user_roles[check.uid] /= "customer")
          => /\ check'.pc = "denied"
             /\ notice' = AccessDenied
             /\ location' = "/"
             /\ loads' = loads
       /\ check'.pc = "denied" =>
            \A i \in 1..Len(loads') : loads'[i].by /= "init"]_vars

\* a user without a role row has just been turned away
C7_Witness ==
    /\ check.pc = "denied"
    /\ user_roles[check.uid] = None
    /\ notice = AccessDenied
    /\ location = "/"

\* C8: without a session checkCustomerAndLoadOrders goes to "/auth" and makes
\* neither the role lookup nor a load; a loadOrders call that finds no session
\* ends there, without a query and with the lists as they were.
C8_AuthRequired ==
    [][/\ (check.pc = "awaitSession" /\ session = None /\ check' /= check)
          => /\ check'.pc = "authRequired"
             /\ location' = "/auth"
             /\ loads' = loads
       /\ \A i \in 1..Len(loads) :
            (/\ loads[i].pc = "awaitSession"
             /\ session = None
             /\ \/ Ended(i)
                \/ Len(loads') = Len(loads) /\ loads'[i] /= loads[i])
            => /\ Ended(i)
               /\ activeOrders' = activeOrders
               /\ orderHistory' = orderHistory
               /\ fetched' = fetched]_vars

\* there never was a session: the check went to "/auth" and a load started
\* by a change event has returned
C8_Witness ==
    /\ check.pc = "authRequired"
    /\ location = "/auth"
    /\ session = None
    /\ signOut = "idle"
    /\ ~loading
    /\ ~fetched.set

\* C9: every update pushed to the subscribed channel starts a loadOrders
\* call, next to the calls in flight; a fetch that returns no orders sets
\* both lists to empty and raises no notice.
C9_EventReloads ==
    [][/\ (updates' = updates + 1 /\ channel > 0)
          => /\ Len(loads') = Len(loads) + 1
             /\ SubSeq(loads', 1, Len(loads)) = loads
             /\ loads'[Len(loads')].pc = "awaitSession"
             /\ loads'[Len(loads')].by = "event"
       /\ \A i \in 1..Len(loads) :
            (/\ loads[i].pc = "awaitResponse"
             /\ ~loads[i].error
             /\ loads[i].data = <<>>
             /\ Ended(i))
            => /\ activeOrders' = <<>>
               /\ orderHistory' = <<>>
               /\ notice' = None]_vars

\* a reload started by a change event found no orders of the customer
C9_Witness ==
    /\ fetched.set
    /\ fetched.by = "event"
    /\ user_roles[fetched.uid] = "customer"
    /\ fetched.data = <<>>
    /\ activeOrders = <<>>
    /\ orderHistory = <<>>
    /\ notice = None

\* C10: the component subscribes one channel when it mounts and has none
\* left once it has unmounted, wherever its calls stand; after the unmount
\* no change event starts a loadOrders call.
C10_Subscription ==
    [][/\ mounted' = "no" => channel' = 0 /\ subscribed' = 0
       /\ mounted' = "yes" => channel' = 1 /\ subscribed' = 1
       /\ mounted' = "gone" => channel' = 0 /\ subscribed' = 1
       /\ mounted = "gone" =>
            \/ Len(loads') <= Len(loads)
            \/ loads'[Len(loads')].by /= "event"]_vars

\* the page was left before any load was started, and the backend has
\* updated an order since
C10_Witness ==
    /\ mounted = "gone"
    /\ channel = 0
    /\ updates > 0
    /\ loading
    /\ loads = <<>>

NewestFirst(s) ==
    \A i, j \in 1..Len(s) : i < j => s[i].created_at >= s[j].created_at

\* C11: after a successful loadOrders each of the two lists is sorted by
\* creation timestamp, newest first.
C11_NewestFirst ==
    fetched.set => NewestFirst(activeOrders) /\ NewestFirst(orderHistory)

\* a fetch put two orders into the same list
C11_Witness ==
    /\ fetched.set
    /\ Len(activeOrders) >= 2 \/ Len(orderHistory) >= 2

\* C12: a loadOrders call whose fetch returns what the fetch applied before
\* it returned (the backend did not change in between) leaves both lists as
\* they are.
C12_Idempotent ==
    [][\A i \in 1..Len(loads) :
          (/\ fetched.set
           /\ loads[i].pc = "awaitResponse"
           /\ ~loads[i].error
           /\ loads[i].uid = fetched.uid
           /\ loads[i].data = fetched.data
           /\ Ended(i))
          => /\ activeOrders' = activeOrders
             /\ orderHistory' = orderHistory]_vars

\* a second call has fetched the orders that the lists already show
C12_Witness ==
    /\ fetched.set
    /\ fetched.data /= <<>>
    /\ QueryOrders(fetched.uid) = fetched.data
    /\ \E i \in 1..Len(loads) :
          /\ loads[i].pc = "awaitResponse"
          /\ ~loads[i].error
          /\ loads[i].uid = fetched.uid
          /\ loads[i].data = fetched.data

\* C16: an order that has appeared in orderHistory never appears in
\* activeOrders afterwards.
C16_HistoryIsFinal ==
    fetched.was \cap Ids(activeOrders) = {}

\* C18: loading is true until a loadOrders call ends, is false from then on
\* whichever way the call ended, and never becomes true again; when the check
\* stops at "/auth" or at access denied and no change event has arrived,
\* loading is still true.
C18_Loading ==
    [][/\ mounted = "no" => loading
       /\ ~loading => ~loading'
       /\ \A i \in 1..Len(loads) : Ended(i) => ~loading'
       /\ (loading /\ ~loading') => \E i \in 1..Len(loads) : Ended(i)
       /\ (check'.pc \in {"authRequired", "denied"} /\ updates' = 0)
             => loading']_vars

\* a load started by a change event returned for want of a session and ended
\* the loading state, although the check had gone to "/auth"
C18_Witness ==
    /\ check.pc = "authRequired"
    /\ updates > 0
    /\ loads = <<>>
    /\ ~loading
    /\ ~fetched.set

\* C13: a failing session lookup, role lookup or orders query ends in a
\* notice raised by the operation that made the call, and never in an
\* unhandled rejection.
C13_FailuresNoticed ==
    [][/\ check'.pc /= "crashed"
       /\ (check.pc = "awaitSession" /\ session /= None
             /\ check'.pc = "authRequired")
          => notice' /= None
       /\ (check.pc = "awaitRole" /\ user_roles[check.uid] = "customer"
             /\ check'.pc = "denied")
          => notice' /= None
       /\ \A i \in 1..Len(loads) :
            (/\ Ended(i)
             /\ \/ loads[i].pc = "awaitSession" /\ session /= None
                \/ loads[i].pc = "awaitResponse" /\ loads[i].error)
            => notice' /= None]_vars

\* ------------------------------------------------- claims, vendor dashboard
\* the operations of handleSubmit and handleDelete that can fail
Mutations == {"session", "upload", "create", "update", "delete"}

\* C14: a step in which a create, an update, its image upload or a delete
\* fails raises an error notice and leaves formData, editingProduct, imageFile
\* and the dialog's open flag as they were; it starts no loadProducts and does
\* not touch the product list.
C14_FailureKeepsForm ==
    [][failure' \in Mutations =>
         /\ notice' \in {NotAuthenticated, BackendError, DeleteFailed}
         /\ formData' = formData
         /\ editingProduct' = editingProduct
         /\ imageFile' = imageFile
         /\ isDialogOpen' = isDialogOpen
         /\ productLoads' = productLoads
         /\ products' = products]_vars

\* an update failed after its image was uploaded: the dialog is still open on
\* the product, with the text and the file the vendor put in
C14_Witness ==
    /\ failure = "update"
    /\ notice = BackendError
    /\ isDialogOpen
    /\ editingProduct /= NoProduct
    /\ imageFile /= None
    /\ formData \notin {EmptyForm, PlainForm}

\* the messages of productSchema
ValidationMessages == {NameRequired, TooBig, PriceMessage, StockMessage}

\* the three conditions on a form: a trimmed name of 1 to 100 characters, a
\* price that parses to a number above 0, a stock that parses to an integer
\* of 0 or more
Validated(form) ==
    /\ Len(Trim(form.name)) \in 1..NameMax
    /\ Positive(ParseFloat(form.price))
    /\ NotNegative(ParseInt(form.stock))

\* C17: handleSubmit sends no insert, update or upload unless the form it
\* read passes validation; a form that fails validation gets a notice, and the
\* form, the dialog and the backend are left alone; uploading is false
\* whenever no handleSubmit call is running.
C17_ValidationGate ==
    [][/\ sent'.op \in {"insert", "update", "upload"} =>
            submit'.pc /= "idle" /\ Validated(submit'.form)
       /\ submit.pc = "idle" /\ submit'.pc /= "idle" =>
            submit'.form = formData /\ Validated(formData)
       /\ notice' \in ValidationMessages =>
            /\ ~SafeParse(formData).success
            /\ formData' = formData
            /\ editingProduct' = editingProduct
            /\ imageFile' = imageFile
            /\ isDialogOpen' = isDialogOpen
            /\ productsTable' = productsTable
            /\ sent' = NoRequest
            /\ submit' = submit
       /\ submit'.pc = "idle" => ~uploading']_vars

\* a price that does not parse to a number above 0 was submitted: the notice
\* is up, the dialog is open on the text, nothing is uploading
C17_Witness ==
    /\ notice = PriceMessage
    /\ ~Positive(ParseFloat(formData.price))
    /\ isDialogOpen
    /\ ~uploading
    /\ submit.pc = "idle"
    /\ sent = NoRequest

\* --------------------------------------------------------- claims, Auth page
\* C15: every account that a finished handleSignUp call created has exactly
\* one row in user_roles.
C15_OneRolePerAccount ==
    \A user \in accounts :
        signUp.pc = "idle" \/ signUp.email /= user =>
            Cardinality({row \in roleRows : row.user_id = user}) = 1

====
